---------------------------- MODULE Spec2Model ----------------------------
(***************************************************************************)
(* The tool server of examples/custom-server (custom_server/app.py): the   *)
(* operation wrappers around the Databricks WorkspaceClient, their         *)
(* try/except result normalisation, and the text/base64 file convention.   *)
(*                                                                         *)
(* Python values are modelled as follows.  An optional value is a sequence *)
(* of length at most one: None is << >> and a present value x is << x >>.  *)
(* A str is a sequence of code points, a bytes object is a sequence of     *)
(* octets.  A message f"prefix{str(e)}" is the record of its two parts.    *)
(***************************************************************************)
EXTENDS Integers, Sequences, FiniteSets, TLC

\* Longest file (in octets) the remote workspace holds initially.
MaxBytesLen == 3

None == << >>
Some(x) == << x >>

\* A computation that returned v / that raised an exception whose str() is e.
Return(v) == [kind |-> "return", value |-> v]
Raise(e) == [kind |-> "raise", exc |-> e]

---------------------------------------------------------------------------
(* str.encode('utf-8') and bytes.decode('utf-8'), strict error handling.   *)

\* The octets of one code point; << >> for a lone surrogate (not encodable).
EncodeCodePoint(cp) ==
    IF cp < 128 THEN << cp >>
    ELSE IF cp < 2048 THEN << 192 + (cp \div 64), 128 + (cp % 64) >>
    ELSE IF cp >= 55296 /\ cp <= 57343 THEN << >>
    ELSE IF cp < 65536
         THEN << 224 + (cp \div 4096), 128 + ((cp \div 64) % 64), 128 + (cp % 64) >>
    ELSE << 240 + (cp \div 262144), 128 + ((cp \div 4096) % 64),
            128 + ((cp \div 64) % 64), 128 + (cp % 64) >>

RECURSIVE Utf8EncodeFrom(_, _, _)
Utf8EncodeFrom(s, i, acc) ==
    IF i > Len(s) THEN Return(acc)
    ELSE IF EncodeCodePoint(s[i]) = << >> THEN Raise("UnicodeEncodeError")
    ELSE Utf8EncodeFrom(s, i + 1, acc \o EncodeCodePoint(s[i]))

\* content.encode('utf-8')
Utf8Encode(s) == Utf8EncodeFrom(s, 1, << >>)

IsCont(b, i, lo, hi) == i <= Len(b) /\ b[i] >= lo /\ b[i] <= hi

\* Length of the well-formed UTF-8 sequence starting at b[i], or 0 if none.
Utf8SeqLen(b, i) ==
    LET c == b[i] IN
    IF c < 128 THEN 1
    ELSE IF c >= 194 /\ c <= 223
         THEN (IF IsCont(b, i + 1, 128, 191) THEN 2 ELSE 0)
    ELSE IF c >= 224 /\ c <= 239
         THEN (IF /\ IsCont(b, i + 1, IF c = 224 THEN 160 ELSE 128,
                                      IF c = 237 THEN 159 ELSE 191)
                  /\ IsCont(b, i + 2, 128, 191)
               THEN 3 ELSE 0)
    ELSE IF c >= 240 /\ c <= 244
         THEN (IF /\ IsCont(b, i + 1, IF c = 240 THEN 144 ELSE 128,
                                      IF c = 244 THEN 143 ELSE 191)
                  /\ IsCont(b, i + 2, 128, 191)
                  /\ IsCont(b, i + 3, 128, 191)
               THEN 4 ELSE 0)
    ELSE 0

DecodeCodePoint(b, i, n) ==
    IF n = 1 THEN b[i]
    ELSE IF n = 2 THEN (b[i] - 192) * 64 + (b[i + 1] - 128)
    ELSE IF n = 3
         THEN (b[i] - 224) * 4096 + (b[i + 1] - 128) * 64 + (b[i + 2] - 128)
    ELSE (b[i] - 240) * 262144 + (b[i + 1] - 128) * 4096
         + (b[i + 2] - 128) * 64 + (b[i + 3] - 128)

RECURSIVE Utf8DecodeFrom(_, _, _)
Utf8DecodeFrom(b, i, acc) ==
    IF i > Len(b) THEN Return(acc)
    ELSE IF Utf8SeqLen(b, i) = 0 THEN Raise("UnicodeDecodeError")
    ELSE Utf8DecodeFrom(b, i + Utf8SeqLen(b, i),
                        Append(acc, DecodeCodePoint(b, i, Utf8SeqLen(b, i))))

\* content.decode('utf-8')
Utf8Decode(b) == Utf8DecodeFrom(b, 1, << >>)

---------------------------------------------------------------------------
(* base64.b64encode(...).decode('ascii') and base64.b64decode(content),    *)
(* the standard alphabet, validate=False (binascii's non-strict decoder).  *)

\* The code point of the base64 digit with value v.
B64Char(v) ==
    IF v < 26 THEN 65 + v
    ELSE IF v < 52 THEN 97 + (v - 26)
    ELSE IF v < 62 THEN 48 + (v - 52)
    ELSE IF v = 62 THEN 43
    ELSE 47

\* The value of the base64 digit with code point c, or 64 if c is no digit.
B64Value(c) ==
    IF c >= 65 /\ c <= 90 THEN c - 65
    ELSE IF c >= 97 /\ c <= 122 THEN c - 97 + 26
    ELSE IF c >= 48 /\ c <= 57 THEN c - 48 + 52
    ELSE IF c = 43 THEN 62
    ELSE IF c = 47 THEN 63
    ELSE 64

RECURSIVE B64EncodeFrom(_, _, _)
B64EncodeFrom(b, i, acc) ==
    IF i > Len(b) THEN acc
    ELSE IF i = Len(b)
         THEN acc \o << B64Char(b[i] \div 4), B64Char((b[i] % 4) * 16), 61, 61 >>
    ELSE IF i + 1 = Len(b)
         THEN acc \o << B64Char(b[i] \div 4),
                        B64Char((b[i] % 4) * 16 + (b[i + 1] \div 16)),
                        B64Char((b[i + 1] % 16) * 4), 61 >>
    ELSE B64EncodeFrom(b, i + 3,
             acc \o << B64Char(b[i] \div 4),
                       B64Char((b[i] % 4) * 16 + (b[i + 1] \div 16)),
                       B64Char((b[i + 1] % 16) * 4 + (b[i + 2] \div 64)),
                       B64Char(b[i + 2] % 64) >>)

\* base64.b64encode(content).decode('ascii')
B64Encode(b) == B64EncodeFrom(b, 1, << >>)

\* binascii.a2b_base64 over s from position i: quad is the position in the
\* current group of four digits, left the bits carried over, pads the count
\* of '=' seen since the last digit.
RECURSIVE B64DecodeFrom(_, _, _, _, _, _)
B64DecodeFrom(s, i, quad, left, pads, acc) ==
    IF i > Len(s)
    THEN (IF quad = 0 THEN Return(acc) ELSE Raise("binascii.Error"))
    ELSE IF s[i] = 61
         THEN (IF quad >= 2 /\ quad + pads + 1 >= 4
               THEN Return(acc)
               ELSE B64DecodeFrom(s, i + 1, quad, left,
                                  IF quad >= 2 THEN pads + 1 ELSE pads, acc))
    ELSE IF B64Value(s[i]) = 64
         THEN B64DecodeFrom(s, i + 1, quad, left, pads, acc)
    ELSE LET v == B64Value(s[i]) IN
         IF quad = 0 THEN B64DecodeFrom(s, i + 1, 1, v, 0, acc)
         ELSE IF quad = 1
              THEN B64DecodeFrom(s, i + 1, 2, v % 16, 0,
                                 Append(acc, left * 4 + (v \div 16)))
         ELSE IF quad = 2
              THEN B64DecodeFrom(s, i + 1, 3, v % 4, 0,
                                 Append(acc, left * 16 + (v \div 4)))
         ELSE B64DecodeFrom(s, i + 1, 0, 0, 0, Append(acc, left * 64 + v))

\* base64.b64decode(content): a str argument is first encoded as ASCII.
B64Decode(s) ==
    IF \E i \in 1..Len(s) : s[i] >= 128 THEN Raise("ValueError")
    ELSE B64DecodeFrom(s, 1, 0, 0, 0, << >>)

---------------------------------------------------------------------------
(* The remote workspace (the opaque WorkspaceClient) and the inputs.       *)

AppNames == {"app-x", "app-y"}
Paths == {"/Workspace/f"}

\* str(e) of an exception a remote call raises for a permission or network
\* failure, of a lookup of something that does not exist, and of reading an
\* attribute of None.
RemoteError == "PERMISSION_DENIED"
NotFound == "RESOURCE_DOES_NOT_EXIST"
AttributeError == "'NoneType' object has no attribute 'source_code_path'"

\* An App as the client reports it.
FullApp(n) ==
    [name |-> n, description |-> Some("demo"), url |-> Some("https://apps/app"),
     active_deployment |-> Some([source_code_path |-> Some("/Workspace/x")]),
     compute_status |-> Some([value |-> "ACTIVE"])]

\* The records of app n the workspace may hold initially: every optional
\* attribute of the SDK's App may be unset.
AppRecords(n) ==
    { FullApp(n),
      [FullApp(n) EXCEPT !.description = None],
      [FullApp(n) EXCEPT !.url = None],
      [FullApp(n) EXCEPT !.active_deployment = None],
      [FullApp(n) EXCEPT !.active_deployment = Some([source_code_path |-> None])],
      [FullApp(n) EXCEPT !.active_deployment = Some([source_code_path |-> Some("")])],
      [FullApp(n) EXCEPT !.compute_status = None],
      [FullApp(n) EXCEPT !.compute_status = Some([value |-> "STOPPED"])] }

\* The listings the workspace may hold: app names are unique per workspace.
Catalogues ==
    { << >> }
    \cup { << r >> : r \in UNION { AppRecords(n) : n \in AppNames } }
    \cup { << r, q >> : r \in AppRecords("app-x"), q \in AppRecords("app-y") }
    \cup { << q, r >> : r \in AppRecords("app-x"), q \in AppRecords("app-y") }

\* The octets files are made of: the two octets of U+00E9 (in that order
\* they are UTF-8, alone or in the other order they are not).
Octets == {195, 169}

RECURSIVE SeqsUpTo(_, _)
SeqsUpTo(S, n) ==
    IF n = 0 THEN { << >> }
    ELSE SeqsUpTo(S, n - 1)
         \cup { Append(s, x) : s \in { t \in SeqsUpTo(S, n - 1) : Len(t) = n - 1 },
                               x \in S }

ByteStrings == SeqsUpTo(Octets, MaxBytesLen)

VARIABLES
    apps,     \* the workspace's apps, in listing order
    files,    \* the workspace's files: path -> None or Some(octets)
    written,  \* path -> the arguments and size of the last successful upload
    op,       \* the wrapper invoked last and its arguments
    calls,    \* the remote calls that invocation issued, in order
    result    \* what that invocation returned or raised

vars == << apps, files, written, op, calls, result >>

Dict(d) == [type |-> "dict", val |-> d]
List(l) == [type |-> "list", val |-> l]
Number(i) == [type |-> "int", val |-> i]

\* f"{prefix}{detail}"
Msg(prefix, detail) == [prefix |-> prefix, detail |-> detail]

Call(name, args, ret) == [call |-> name, args |-> args, ret |-> ret]

\* w = WorkspaceClient()
NewClient(fail) ==
    Call("WorkspaceClient", << >>,
         IF fail THEN Raise(RemoteError) ELSE Return(None))

\* What the body of a wrapper yields: what it returns or raises, the remote
\* calls it issued, and the workspace it leaves behind.
Out(ret, cs, as, fs, ws) ==
    [ret |-> ret, calls |-> cs, apps |-> as, files |-> fs, written |-> ws]

\* except ValueError: base64's and the codecs' errors, not the client's
ExceptValueError(out) ==
    /\ out.ret.kind = "raise"
    /\ out.ret.exc \in {"ValueError", "binascii.Error", "UnicodeEncodeError"}

\* except Exception as e: whether the try body out enters the clause.
Except(out) == out.ret.kind = "raise"

\* return <value> from the except clause of the try body out.
Caught(out, value) == [out EXCEPT !.ret = Return(value)]

\* not x, for x an optional str
Falsy(x) == x = None \/ x = Some("")

RECURSIVE IndexOf(_, _, _)
IndexOf(as, n, i) ==
    IF i > Len(as) THEN 0
    ELSE IF as[i].name = n THEN i
    ELSE IndexOf(as, n, i + 1)

\* w.apps.get(app_name); fail: the call raises for a reason of the remote's.
AppsGet(as, n, fail) ==
    IF fail THEN Raise(RemoteError)
    ELSE IF IndexOf(as, n, 1) = 0 THEN Raise(NotFound)
    ELSE Return(as[IndexOf(as, n, 1)])

\* w.apps.start / w.apps.stop: the app's compute status, when the workspace
\* reports one, becomes st.
AppsSetCompute(as, n, st, fail) ==
    IF fail THEN [ret |-> Raise(RemoteError), apps |-> as]
    ELSE IF IndexOf(as, n, 1) = 0 THEN [ret |-> Raise(NotFound), apps |-> as]
    ELSE LET i == IndexOf(as, n, 1) IN
         [ret |-> Return(None),
          apps |-> IF as[i].compute_status = None THEN as
                   ELSE [as EXCEPT ![i].compute_status = Some([value |-> st])]]

\* w.apps.deploy(app_name=, source_code_path=): the new deployment becomes
\* the app's active deployment; dstatus is the status the remote reports.
AppsDeploy(as, n, path, dstatus, fail) ==
    IF fail THEN [ret |-> Raise(RemoteError), apps |-> as]
    ELSE IF IndexOf(as, n, 1) = 0 THEN [ret |-> Raise(NotFound), apps |-> as]
    ELSE [ret |-> Return([deployment_id |-> "dep-1", status |-> dstatus]),
          apps |-> [as EXCEPT ![IndexOf(as, n, 1)].active_deployment =
                        Some([source_code_path |-> Some(path)])]]

\* w.workspace.download(path).read()
WorkspaceDownload(fs, path, fail) ==
    IF fail THEN Raise(RemoteError)
    ELSE IF fs[path] = None THEN Raise(NotFound)
    ELSE Return(fs[path][1])

\* w.workspace.upload(path=, content=, format=, language=, overwrite=): an
\* existing file is replaced only with overwrite.
WorkspaceUpload(fs, path, bytes, overwrite, fail) ==
    IF fail THEN [ret |-> Raise(RemoteError), files |-> fs]
    ELSE IF fs[path] # None /\ ~overwrite
         THEN [ret |-> Raise("RESOURCE_ALREADY_EXISTS"), files |-> fs]
    ELSE [ret |-> Return(None), files |-> [fs EXCEPT ![path] = Some(bytes)]]

---------------------------------------------------------------------------
(* The wrappers.  failAt numbers the step of the wrapper that raises for a *)
(* reason of the remote's: 0 none, 1 WorkspaceClient(), 2 and 3 the first  *)
(* and the second remote call.                                             *)

\* a * b
add_body_times(a, b) == a * b

\* The body of add(a, b).
add_body(a, b) == a + b

\* The loop of list_databricks_apps over the listing.
RECURSIVE ProjectApps(_, _, _)
ProjectApps(as, i, app_list) ==
    IF i > Len(as) THEN Return(List(app_list))
    ELSE IF as[i].active_deployment = None THEN Raise(AttributeError)
    ELSE ProjectApps(as, i + 1,
             Append(app_list,
                    [name |-> as[i].name,
                     description |-> as[i].description,
                     app_url |-> as[i].url,
                     source_code_path |->
                         as[i].active_deployment[1].source_code_path]))

ListError(e) == List(<< [error |-> Msg("Failed to list apps: ", e)] >>)

list_databricks_apps_body(failAt) ==
    LET try ==
        IF failAt = 1
        THEN Out(Raise(RemoteError), << NewClient(TRUE) >>, apps, files, written)
        ELSE IF failAt = 2
             THEN Out(Raise(RemoteError),
                      << NewClient(FALSE),
                         Call("apps.list", << >>, Raise(RemoteError)) >>,
                      apps, files, written)
        ELSE Out(ProjectApps(apps, 1, << >>),
                 << NewClient(FALSE), Call("apps.list", << >>, Return(apps)) >>,
                 apps, files, written)
    IN  IF Except(try) THEN Caught(try, ListError(try.ret.exc)) ELSE try

DownloadError(path, e) ==
    Dict([path |-> path, error |-> Msg("Failed to download file: ", e),
          success |-> FALSE])

\* The base64 fallback without its flag.
DownloadResultFlagLost(path, content) ==
    LET text == Utf8Decode(content) IN
    Dict([path |-> path,
          content |-> IF text.kind = "return" THEN text.value
                      ELSE B64Encode(content),
          is_binary |-> FALSE,
          size_bytes |-> Len(content),
          success |-> TRUE])

\* try: content.decode('utf-8')  except UnicodeDecodeError: base64
DownloadResult(path, content) ==
    LET text == Utf8Decode(content) IN
    Dict([path |-> path,
          content |-> IF text.kind = "return" THEN text.value
                      ELSE B64Encode(content),
          is_binary |-> text.kind # "return",
          size_bytes |-> Len(content),
          success |-> TRUE])

download_workspace_file_body(path, failAt) ==
    LET try ==
        IF failAt = 1
        THEN Out(Raise(RemoteError), << NewClient(TRUE) >>, apps, files, written)
        ELSE LET d == WorkspaceDownload(files, path, failAt = 2)
                 cs == << NewClient(FALSE),
                          Call("workspace.download", << path >>, d) >>
             IN  IF d.kind = "raise" THEN Out(d, cs, apps, files, written)
                 ELSE Out(Return(DownloadResult(path, d.value)), cs,
                          apps, files, written)
    IN  IF Except(try) THEN Caught(try, DownloadError(path, try.ret.exc))
        ELSE try

RedeployError(app_name, e) ==
    Dict([app_name |-> app_name, error |-> Msg("Failed to redeploy app: ", e),
          success |-> FALSE])

\* The generic error in place of the not-found one.
RedeployNotFoundGeneric(app_name, e) == RedeployError(app_name, e)

RedeployNotFound(app_name, e) ==
    Dict([app_name |-> app_name, error |-> Msg("App not found: ", e),
          success |-> FALSE])

RedeployNoSource(app_name) ==
    Dict([app_name |-> app_name,
          error |-> Msg("No source code path available for deployment", ""),
          success |-> FALSE])

\* No fallback to the active deployment.
ResolveExplicitOnly(source_code_path, app) == source_code_path

\* if source_code_path is None and app.active_deployment: ...
ResolveSourcePath(source_code_path, app) ==
    IF source_code_path = None /\ app.active_deployment # None
    THEN app.active_deployment[1].source_code_path
    ELSE source_code_path

\* Lines 117-140: the app exists; deploy from the resolved source path.
RedeployExisting(app_name, source_code_path, app, cs, dstatus, fail) ==
    LET resolved == ResolveSourcePath(source_code_path, app) IN
    IF Falsy(resolved)
    THEN Out(Return(RedeployNoSource(app_name)), cs, apps, files, written)
    ELSE LET d == AppsDeploy(apps, app_name, resolved[1], dstatus, fail)
             cs2 == Append(cs, Call("apps.deploy", << app_name, resolved[1] >>,
                                    d.ret))
         IN  IF d.ret.kind = "raise"
             THEN Out(d.ret, cs2, d.apps, files, written)
             ELSE Out(Return(Dict(
                          [app_name |-> app_name,
                           deployment_id |-> d.ret.value.deployment_id,
                           source_code_path |-> resolved[1],
                           status |-> IF d.ret.value.status # None
                                      THEN d.ret.value.status[1].value
                                      ELSE "unknown",
                           success |-> TRUE])),
                      cs2, d.apps, files, written)

redeploy_databricks_app_body(app_name, source_code_path, dstatus, failAt) ==
    LET try ==
        IF failAt = 1
        THEN Out(Raise(RemoteError), << NewClient(TRUE) >>, apps, files, written)
        ELSE LET g == AppsGet(apps, app_name, failAt = 2)
                 cs == << NewClient(FALSE), Call("apps.get", << app_name >>, g) >>
             IN  IF g.kind = "raise"
                 THEN Out(Return(RedeployNotFound(app_name, g.exc)), cs,
                          apps, files, written)
                 ELSE RedeployExisting(app_name, source_code_path, g.value, cs,
                                       dstatus, failAt = 3)
    IN  IF Except(try) THEN Caught(try, RedeployError(app_name, try.ret.exc))
        ELSE try

StartError(app_name, e) ==
    Dict([app_name |-> app_name, error |-> Msg("Failed to start app: ", e),
          success |-> FALSE])

\* The error of stop_app without its success field.
StopErrorNoSuccess(app_name, e) ==
    Dict([app_name |-> app_name, error |-> Msg("Failed to stop app: ", e)])

StopError(app_name, e) ==
    Dict([app_name |-> app_name, error |-> Msg("Failed to stop app: ", e),
          success |-> FALSE])

\* app.compute_status.value if app.compute_status else "unknown"
StatusOf(app) ==
    IF app.compute_status # None THEN app.compute_status[1].value ELSE "unknown"

StartResult(app_name, app) ==
    Dict([app_name |-> app_name, status |-> StatusOf(app), app_url |-> app.url,
          success |-> TRUE])

StopResult(app_name, app) ==
    Dict([app_name |-> app_name, status |-> StatusOf(app), success |-> TRUE])

\* The re-fetch first and the lifecycle call after it.
LifecycleFetchFirst(app_name, call, st, failAt) ==
    IF failAt = 1
    THEN Out(Raise(RemoteError), << NewClient(TRUE) >>, apps, files, written)
    ELSE LET g == AppsGet(apps, app_name, failAt = 3)
             cs == << NewClient(FALSE), Call("apps.get", << app_name >>, g) >>
         IN  IF g.kind = "raise" THEN Out(g, cs, apps, files, written)
             ELSE LET s == AppsSetCompute(apps, app_name, st, failAt = 2)
                      cs2 == Append(cs, Call(call, << app_name >>, s.ret))
                  IN  IF s.ret.kind = "raise"
                      THEN Out(s.ret, cs2, s.apps, files, written)
                      ELSE Out(g, cs2, s.apps, files, written)

\* The re-fetch issued whether or not the lifecycle call raised.
LifecycleFetchAnyway(app_name, call, st, failAt) ==
    IF failAt = 1
    THEN Out(Raise(RemoteError), << NewClient(TRUE) >>, apps, files, written)
    ELSE LET s == AppsSetCompute(apps, app_name, st, failAt = 2)
             g == AppsGet(s.apps, app_name, failAt = 3)
             cs == << NewClient(FALSE), Call(call, << app_name >>, s.ret),
                      Call("apps.get", << app_name >>, g) >>
         IN  Out(g, cs, s.apps, files, written)

\* Lines 161-167 and 195-201: the lifecycle call, then the re-fetch; yields
\* the app re-fetched.
Lifecycle(app_name, call, st, failAt) ==
    IF failAt = 1
    THEN Out(Raise(RemoteError), << NewClient(TRUE) >>, apps, files, written)
    ELSE LET s == AppsSetCompute(apps, app_name, st, failAt = 2)
             cs == << NewClient(FALSE), Call(call, << app_name >>, s.ret) >>
         IN  IF s.ret.kind = "raise" THEN Out(s.ret, cs, s.apps, files, written)
             ELSE LET g == AppsGet(s.apps, app_name, failAt = 3)
                  IN  Out(g, Append(cs, Call("apps.get", << app_name >>, g)),
                          s.apps, files, written)

start_databricks_app_body(app_name, failAt) ==
    LET try == Lifecycle(app_name, "apps.start", "ACTIVE", failAt) IN
    IF Except(try) THEN Caught(try, StartError(app_name, try.ret.exc))
    ELSE Caught(try, StartResult(app_name, try.ret.value))

stop_databricks_app_body(app_name, failAt) ==
    LET try == Lifecycle(app_name, "apps.stop", "STOPPED", failAt) IN
    IF Except(try) THEN Caught(try, StopError(app_name, try.ret.exc))
    ELSE Caught(try, StopResult(app_name, try.ret.value))

UploadError(path, e) ==
    Dict([path |-> path, error |-> Msg("Failed to upload file: ", e),
          success |-> FALSE])

\* language.upper(), for the language tags drawn as inputs
Upper(s) ==
    CASE s = "python" -> "PYTHON"
      [] s = "klingon" -> "KLINGON"
      [] OTHER -> s

\* The members of databricks.sdk.service.workspace.Language.
LanguageMembers == {"PYTHON", "SQL", "SCALA", "R"}

\* Lines 248-252.
LanguageEnum(language) ==
    IF language = None \/ language = Some("") THEN None
    ELSE IF Upper(language[1]) \in LanguageMembers
         THEN Some(Upper(language[1]))
    ELSE None

\* is_binary ignored.
ContentBytesAlwaysText(content, is_binary) == Utf8Encode(content)

\* Lines 235-239.
ContentBytes(content, is_binary) ==
    IF is_binary THEN B64Decode(content) ELSE Utf8Encode(content)

upload_workspace_file_body(path, content, is_binary, overwrite, language, failAt) ==
    LET try ==
        IF failAt = 1
        THEN Out(Raise(RemoteError), << NewClient(TRUE) >>, apps, files, written)
        ELSE LET content_bytes == ContentBytes(content, is_binary) IN
             IF content_bytes.kind = "raise"
             THEN Out(content_bytes, << NewClient(FALSE) >>, apps, files, written)
             ELSE LET u == WorkspaceUpload(files, path, content_bytes.value,
                                           overwrite, failAt = 2)
                      cs == << NewClient(FALSE),
                               Call("workspace.upload",
                                    << path, content_bytes.value, "SOURCE",
                                       LanguageEnum(language), overwrite >>,
                                    u.ret) >>
                  IN  IF u.ret.kind = "raise"
                      THEN Out(u.ret, cs, apps, u.files, written)
                      ELSE Out(Return(Dict(
                                   [path |-> path,
                                    size_bytes |-> Len(content_bytes.value),
                                    overwrite |-> overwrite,
                                    language |-> language,
                                    success |-> TRUE])),
                               cs, apps, u.files,
                               [written EXCEPT ![path] =
                                    Some([content |-> content,
                                          is_binary |-> is_binary,
                                          size_bytes |-> Len(content_bytes.value)])])
    IN  IF Except(try) THEN Caught(try, UploadError(path, try.ret.exc)) ELSE try

---------------------------------------------------------------------------
(* The inputs the wrappers are invoked with.                               *)

AddInputs == 0..3

\* source_code_path: omitted, empty, or a path other than the deployed one.
SourcePathArgs == {None, Some(""), Some("/Workspace/new")}

\* deployment.status of the deployment the remote returns.
DeploymentStatuses == {None, Some([value |-> "IN_PROGRESS"])}

\* (overwrite, language): the defaults, and two other choices.
UploadOptions ==
    { << TRUE, None >>, << FALSE, Some("python") >>, << TRUE, Some("klingon") >> }

\* overwrite: bool = True, language: str = None
DefaultOptions == { << TRUE, None >> }

\* Text: every str that is the UTF-8 reading of a file, and a lone surrogate.
TextContents ==
    { Utf8Decode(b).value : b \in { c \in ByteStrings : Utf8Decode(c).kind = "return" } }
    \cup { << 55296 >> }

\* Base64: the encoding of every file, then "Q" (one digit), "w6k" (padding
\* missing), "w6l=" (spare bits set), "w6k= " and "w6k=QQ" (text after the
\* padding), and a non-ASCII string.
Base64Contents ==
    { B64Encode(b) : b \in ByteStrings }
    \cup { << 81 >>, << 119, 54, 107 >>, << 119, 54, 108, 61 >>,
           << 119, 54, 107, 61, 32 >>, << 119, 54, 107, 61, 81, 81 >>, << 233 >> }

Contents == TextContents \cup Base64Contents

\* U+00E9 (text, and no base64), "/w==" (the base64 of 0xFF), and a lone
\* surrogate (no UTF-8).
SmallContents == { << 233 >>, << 47, 119, 61, 61 >>, << 55296 >> }

StoredFiles == {None} \cup { Some(b) : b \in ByteStrings }

---------------------------------------------------------------------------
(* The state machine: one action per tool, the whole call in one step.     *)

NoOp == [name |-> "none", args |-> << >>]

InitCall ==
    /\ written = [p \in Paths |-> None]
    /\ op = NoOp
    /\ calls = << >>
    /\ result = None

Step(name, args, out) ==
    \E o \in {out} :
        /\ op' = [name |-> name, args |-> args]
        /\ calls' = o.calls
        /\ result' = o.ret
        /\ apps' = o.apps
        /\ files' = o.files
        /\ written' = o.written

add ==
    \E a \in AddInputs, b \in AddInputs :
        Step("add", [a |-> a, b |-> b],
             Out(Return(Number(add_body(a, b))), << >>, apps, files, written))

list_databricks_apps ==
    \E failAt \in 0..2 :
        Step("list_databricks_apps", << >>, list_databricks_apps_body(failAt))

download_workspace_file ==
    \E path \in Paths, failAt \in 0..2 :
        Step("download_workspace_file", [path |-> path],
             download_workspace_file_body(path, failAt))

redeploy_databricks_app ==
    \E app_name \in AppNames, source_code_path \in SourcePathArgs,
       dstatus \in DeploymentStatuses, failAt \in 0..3 :
        Step("redeploy_databricks_app",
             [app_name |-> app_name, source_code_path |-> source_code_path],
             redeploy_databricks_app_body(app_name, source_code_path, dstatus,
                                          failAt))

start_databricks_app ==
    \E app_name \in AppNames, failAt \in 0..3 :
        Step("start_databricks_app", [app_name |-> app_name],
             start_databricks_app_body(app_name, failAt))

stop_databricks_app ==
    \E app_name \in AppNames, failAt \in 0..3 :
        Step("stop_databricks_app", [app_name |-> app_name],
             stop_databricks_app_body(app_name, failAt))

upload_workspace_file(given, options) ==
    \E path \in Paths, content \in given, is_binary \in BOOLEAN,
       o \in options, failAt \in 0..2 :
        Step("upload_workspace_file",
             [path |-> path, content |-> content, is_binary |-> is_binary,
              overwrite |-> o[1], language |-> o[2]],
             upload_workspace_file_body(path, content, is_binary, o[1], o[2],
                                        failAt))

\* Every tool, over a workspace of at most one app and a few files.
Init ==
    /\ apps \in { << >> } \cup { << r >> : r \in AppRecords("app-x") }
    /\ files \in [Paths -> {None, Some(<< 195, 169 >>), Some(<< 195 >>)}]
    /\ InitCall

Next ==
    \/ add
    \/ list_databricks_apps
    \/ download_workspace_file
    \/ redeploy_databricks_app
    \/ start_databricks_app
    \/ stop_databricks_app
    \/ upload_workspace_file(SmallContents, UploadOptions)

Spec == Init /\ [][Next]_vars

\* The app tools, over every listing.
InitApps ==
    /\ apps \in Catalogues
    /\ files = [p \in Paths |-> None]
    /\ InitCall

NextApps ==
    \/ list_databricks_apps
    \/ redeploy_databricks_app
    \/ start_databricks_app
    \/ stop_databricks_app

SpecApps == InitApps /\ [][NextApps]_vars

\* The file tools, over every file and every content.
InitFiles ==
    /\ apps = << >>
    /\ files \in [Paths -> StoredFiles]
    /\ InitCall

NextFiles ==
    \/ download_workspace_file
    \/ upload_workspace_file(Contents, DefaultOptions)

SpecFiles == InitFiles /\ [][NextFiles]_vars

---------------------------------------------------------------------------
(* What the claims speak of.                                               *)

Wrappers ==
    {"list_databricks_apps", "download_workspace_file", "upload_workspace_file",
     "start_databricks_app", "stop_databricks_app", "redeploy_databricks_app"}

ReturnedDict == result.kind = "return" /\ result.value.type = "dict"
ReturnedList == result.kind = "return" /\ result.value.type = "list"
Succeeded == ReturnedDict /\ result.value.val.success = TRUE
Failed == ReturnedDict /\ result.value.val.success = FALSE

\* The value returned.
R == result.value.val

\* The remote calls of the invocation named n, in order.
CallsNamed(n) == SelectSeq(calls, LAMBDA c : c.call = n)

\* Some step of the invocation raised in the client.
SomeCallFailed == \E i \in 1..Len(calls) : calls[i].ret.kind = "raise"

NonEmpty(msg) == msg.prefix # "" \/ msg.detail # ""

\* r has a boolean success field; a list has it if it has entries and each
\* entry has it.
HasSuccess(r) ==
    /\ r.kind = "return"
    /\ IF r.value.type = "dict"
       THEN "success" \in DOMAIN r.value.val /\ r.value.val.success \in BOOLEAN
       ELSE IF r.value.type = "list"
            THEN /\ Len(r.value.val) > 0
                 /\ \A i \in 1..Len(r.value.val) :
                        "success" \in DOMAIN r.value.val[i]
       ELSE FALSE

\* r is the error shape: success=false, a non-empty error, the key echoed.
IsErrorResult(r, args) ==
    /\ r.kind = "return"
    /\ r.value.type = "dict"
    /\ {"error", "success"} \subseteq DOMAIN r.value.val
    /\ r.value.val.success = FALSE
    /\ NonEmpty(r.value.val.error)
    /\ IF "path" \in DOMAIN args
       THEN "path" \in DOMAIN r.value.val /\ r.value.val.path = args.path
       ELSE "app_name" \in DOMAIN r.value.val
            /\ r.value.val.app_name = args.app_name

\* r is list_apps' error shape: one entry, which holds only an error.
IsListError(r) ==
    /\ r.kind = "return"
    /\ r.value.type = "list"
    /\ Len(r.value.val) = 1
    /\ DOMAIN r.value.val[1] = {"error"}
    /\ NonEmpty(r.value.val[1].error)

---------------------------------------------------------------------------

\* C1 (as claimed): every wrapper, list_apps included, returns a result with
\* a boolean success field, on every path.
C1_SuccessInEveryResult == op.name \in Wrappers => HasSuccess(result)

\* C1 (amended): every wrapper but list_apps returns a mapping with a boolean
\* success field on every path; list_apps returns a sequence, and no entry of
\* it has a success field.
C1_SuccessInEveryMapping ==
    /\ op.name \in Wrappers \ {"list_databricks_apps"} =>
           ReturnedDict /\ HasSuccess(result)
    /\ op.name = "list_databricks_apps" =>
           /\ ReturnedList
           /\ \A i \in 1..Len(R) : "success" \notin DOMAIN R[i]

C1_Witness ==
    /\ op.name = "redeploy_databricks_app"
    /\ Failed
    /\ R.error.prefix = "No source code path available for deployment"

\* C2 (as claimed): no wrapper raises, and when a step of the remote client
\* fails the wrapper, list_apps included, returns success=false, a
\* non-empty error and its path or app_name.
C2_ErrorResultOnEveryFailure ==
    op.name \in Wrappers =>
        /\ result.kind = "return"
        /\ SomeCallFailed => IsErrorResult(result, op.args)

\* C2 (amended): no wrapper raises; when a step of the remote client fails,
\* download, upload, start, stop and redeploy return success=false, a
\* non-empty error and the path or app_name (download_file no content);
\* list_apps returns a single entry that holds only a non-empty error.
C2_NeverRaises ==
    /\ op.name \in Wrappers => result.kind = "return"
    /\ (op.name \in Wrappers \ {"list_databricks_apps"} /\ SomeCallFailed) =>
           IsErrorResult(result, op.args)
    /\ (op.name = "download_workspace_file" /\ SomeCallFailed) =>
           "content" \notin DOMAIN R
    /\ (op.name = "list_databricks_apps" /\ SomeCallFailed) => IsListError(result)

C2_Witness ==
    /\ op.name = "download_workspace_file"
    /\ files[op.args.path] = None
    /\ calls[Len(calls)].ret = Raise(NotFound)
    /\ IsErrorResult(result, op.args)
    /\ "content" \notin DOMAIN R


\* The last successful upload to the path just downloaded, if there is one.
Uploaded == written[op.args.path][1]

DownloadedAfterUpload ==
    /\ op.name = "download_workspace_file"
    /\ Succeeded
    /\ written[op.args.path] # None

\* C3 (as claimed): a successful download of a path after a successful
\* upload to it returns the upload's binary flag, content and size, for text
\* and for binary payloads, those that decode to valid UTF-8 included.
C3_DownloadReturnsUpload ==
    DownloadedAfterUpload =>
        /\ R.is_binary = Uploaded.is_binary
        /\ R.content = Uploaded.content
        /\ R.size_bytes = Uploaded.size_bytes

\* C3 (amended): such a download returns the upload's size; it returns the
\* upload's flag and content for a text payload, and for a binary payload
\* that is the canonical base64 of octets that are not valid UTF-8; a binary
\* payload whose octets are valid UTF-8 comes back as text (is_binary false,
\* the content the decoded text).
C3_RoundTripWhereRepresentable ==
    DownloadedAfterUpload =>
        /\ R.size_bytes = Uploaded.size_bytes
        /\ ~Uploaded.is_binary =>
               R.is_binary = FALSE /\ R.content = Uploaded.content
        /\ Uploaded.is_binary =>
               /\ B64Decode(Uploaded.content).kind = "return"
               /\ LET octets == B64Decode(Uploaded.content).value IN
                  IF Utf8Decode(octets).kind = "return"
                  THEN /\ R.is_binary = FALSE
                       /\ R.content = Utf8Decode(octets).value
                  ELSE /\ R.is_binary = TRUE
                       /\ Uploaded.content = B64Encode(octets) =>
                              R.content = Uploaded.content

C3_Witness ==
    /\ DownloadedAfterUpload
    /\ Uploaded.is_binary
    /\ R.is_binary
    /\ R.content = Uploaded.content
    /\ R.size_bytes = 3

\* The step uploads what the download before it returned, and succeeds.
UploadOfDownload ==
    /\ op.name = "download_workspace_file"
    /\ Succeeded
    /\ op'.name = "upload_workspace_file"
    /\ op'.args.path = op.args.path
    /\ op'.args.content = R.content
    /\ op'.args.is_binary = R.is_binary
    /\ result'.value.val.success = TRUE

\* C4: a successful download followed by an upload of the content and flag
\* it returned hands the remote client the octets of the file as they were,
\* and the upload reports the download's size.
C4_UploadOfDownloadSendsOriginal ==
    [][UploadOfDownload =>
           /\ CallsNamed("workspace.upload")'[1].args[1] = op.args.path
           /\ CallsNamed("workspace.upload")'[1].args[2] = files[op.args.path][1]
           /\ files'[op.args.path] = files[op.args.path]
           /\ result'.value.val.size_bytes = R.size_bytes]_vars

C4_Witness ==
    /\ op.name = "upload_workspace_file"
    /\ Succeeded
    /\ op.args.is_binary
    /\ Utf8Decode(files[op.args.path][1]).kind = "raise"
    /\ op.args.content = B64Encode(files[op.args.path][1])
    /\ R.size_bytes = 3

\* The listing call of the invocation returned.
Listed ==
    /\ op.name = "list_databricks_apps"
    /\ CallsNamed("apps.list") # << >>
    /\ CallsNamed("apps.list")[1].ret.kind = "return"

\* The entry list_apps owes for a record: its name, description, URL and
\* source path, absent ones as None.
Projection(app) ==
    [name |-> app.name, description |-> app.description, app_url |-> app.url,
     source_code_path |->
         IF app.active_deployment = None THEN None
         ELSE app.active_deployment[1].source_code_path]

\* C5: when the listing call returns, list_apps returns one entry per app,
\* in listing order, each taken from its record (records without
\* description, URL or active deployment included).
C5_ListProjectsEveryRecord ==
    Listed =>
        /\ ReturnedList
        /\ Len(R) = Len(apps)
        /\ \A i \in 1..Len(apps) : R[i] = Projection(apps[i])

\* A redeploy whose get call raised / returned the app.
RedeployGetFailed ==
    /\ op.name = "redeploy_databricks_app"
    /\ CallsNamed("apps.get") # << >>
    /\ CallsNamed("apps.get")[1].ret.kind = "raise"

RedeployGot ==
    /\ op.name = "redeploy_databricks_app"
    /\ CallsNamed("apps.get") # << >>
    /\ CallsNamed("apps.get")[1].ret.kind = "return"

\* C6: a redeploy whose get call fails returns success=false with the
\* "App not found" error, not the "Failed to redeploy app" one, and issues
\* no deployment call.
C6_NotFoundIssuesNoDeployment ==
    RedeployGetFailed =>
        /\ Failed
        /\ R.app_name = op.args.app_name
        /\ R.error.prefix = "App not found: "
        /\ R.error.detail = CallsNamed("apps.get")[1].ret.exc
        /\ CallsNamed("apps.deploy") = << >>
        /\ Len(CallsNamed("apps.get")) = 1

C6_Witness ==
    /\ RedeployGetFailed
    /\ IndexOf(apps, op.args.app_name, 1) = 0
    /\ R.error = Msg("App not found: ", NotFound)

\* The path a redeploy of the app the get call returned is to deploy from.
Resolved ==
    LET app == CallsNamed("apps.get")[1].ret.value IN
    IF op.args.source_code_path # None THEN op.args.source_code_path
    ELSE IF app.active_deployment # None
         THEN app.active_deployment[1].source_code_path
    ELSE None

\* C7: a redeploy of an existing app deploys from the explicit path if one
\* is given, else from the active deployment's; it issues a deployment call
\* exactly when that path is available, once and with that path, which is
\* the path a successful result reports; without one it returns the
\* no-source-path error.
C7_DeploysFromResolvedPath ==
    RedeployGot =>
        /\ (CallsNamed("apps.deploy") # << >>) <=> ~Falsy(Resolved)
        /\ ~Falsy(Resolved) =>
               /\ Len(CallsNamed("apps.deploy")) = 1
               /\ CallsNamed("apps.deploy")[1].args =
                      << op.args.app_name, Resolved[1] >>
               /\ Succeeded <=> CallsNamed("apps.deploy")[1].ret.kind = "return"
               /\ Succeeded => R.source_code_path = Resolved[1]
        /\ Falsy(Resolved) =>
               /\ Failed
               /\ R.error.prefix = "No source code path available for deployment"

C7_Witness ==
    /\ RedeployGot
    /\ op.args.source_code_path = None
    /\ Succeeded
    /\ R.source_code_path = "/Workspace/x"
    /\ CallsNamed("apps.deploy")[1].args = << op.args.app_name, "/Workspace/x" >>

\* The app a start or stop named, as the workspace holds it afterwards.
AppAfter == apps[IndexOf(apps, op.args.app_name, 1)]

Started == op.name = "start_databricks_app" /\ Succeeded

\* C8 (as claimed): a successful start_app reports the compute status of the
\* app as it is after the start, and a URL that is not null.
C8_StartReportsStatusAndUrl ==
    Started =>
        /\ AppAfter.compute_status = Some([value |-> R.status])
        /\ R.app_url # None

\* C8 (amended): a successful start_app reports the value of the compute
\* status of the app as re-fetched after the start, or "unknown" when the
\* app has none, and the app's URL, which is null when the app has none.
C8_StartReportsRefetchedApp ==
    Started =>
        /\ R.status = IF AppAfter.compute_status = None THEN "unknown"
                      ELSE AppAfter.compute_status[1].value
        /\ R.app_url = AppAfter.url
        /\ CallsNamed("apps.get")[1].ret = Return(AppAfter)

C8_Witness ==
    /\ Started
    /\ R.status = "ACTIVE"
    /\ R.app_url = None

\* C9 (as claimed): add(2, 3) returns 4.
C9_AddTwoThreeIsFour ==
    (op.name = "add" /\ op.args = [a |-> 2, b |-> 3]) => result = Return(Number(4))

\* C9 (amended): add(2, 3) returns 5.
C9_AddTwoThreeIsFive ==
    (op.name = "add" /\ op.args = [a |-> 2, b |-> 3]) => result = Return(Number(5))

C9_Witness == op.name = "add" /\ op.args = [a |-> 2, b |-> 3] /\ result.kind = "return"

\* The lifecycle call of a start or stop.
LifecycleCall ==
    IF op.name = "start_databricks_app" THEN "apps.start" ELSE "apps.stop"

\* The calls on w.apps and w.workspace, without the construction of w.
RemoteCalls == SelectSeq(calls, LAMBDA c : c.call # "WorkspaceClient")

\* C10: start_app and stop_app issue the lifecycle call and then the
\* re-fetch, each at most once, the re-fetch only if the lifecycle call did
\* not fail; if the re-fetch fails after the lifecycle call succeeded, the
\* result is success=false with the generic error and no status, though the
\* start or stop has taken effect in the workspace.
C10_LifecycleThenRefetch ==
    op.name \in {"start_databricks_app", "stop_databricks_app"} =>
        /\ Len(RemoteCalls) <= 2
        /\ Len(RemoteCalls) >= 1 => RemoteCalls[1].call = LifecycleCall
        /\ Len(RemoteCalls) = 2 =>
               /\ RemoteCalls[2].call = "apps.get"
               /\ RemoteCalls[1].ret.kind = "return"
        /\ (Len(RemoteCalls) = 2 /\ RemoteCalls[2].ret.kind = "raise") =>
               /\ Failed
               /\ R.error.prefix =
                      (IF op.name = "start_databricks_app"
                       THEN "Failed to start app: " ELSE "Failed to stop app: ")
               /\ "status" \notin DOMAIN R
               /\ AppAfter.compute_status \in
                      {None, Some([value |-> IF op.name = "start_databricks_app"
                                             THEN "ACTIVE" ELSE "STOPPED"])}
        /\ (Len(RemoteCalls) >= 1 /\ RemoteCalls[1].ret.kind = "return") =>
               Len(RemoteCalls) = 2

C10_Witness ==
    /\ op.name = "stop_databricks_app"
    /\ Len(RemoteCalls) = 2
    /\ RemoteCalls[2].ret.kind = "raise"
    /\ Failed
    /\ AppAfter.compute_status = Some([value |-> "STOPPED"])

===========================================================================
